---- MODULE Spec2Model ----
(***************************************************************************)
(* Model of app/agent.py: the Professor Tutor crew.                        *)
(*                                                                         *)
(* The module body runs top to bottom when it is imported: the environment *)
(* defaults (lines 22-26), the four @tool functions (33-84), the three     *)
(* specialist agents (89-108), the orchestrator (135-145) and, when the    *)
(* file is run as a script, the two-utterance driver (148-157).            *)
(*                                                                         *)
(* Strings are TLA+ strings and f-strings are concatenations.  The emoji   *)
(* that open the four log lines are written as ASCII shortcodes, since     *)
(* the module text is ASCII.                                               *)
(***************************************************************************)
EXTENDS Integers, Sequences, FiniteSets, TLC

VARIABLES
    environ,      \* os.environ restricted to the three keys the module reads
    environ0,     \* history: os.environ as the process found it
    resolved,     \* history: how many times each key went through setdefault
    auth,         \* the project google.auth.default() reports
    isMain,       \* __name__ == "__main__"
    pc,           \* position of the module body / driver
    project_id,   \* module global bound at line 23
    order,        \* module globals (tools, agents) in the order they were bound
    agents,       \* agent globals: variable name -> Agent(...) arguments
    stdout,       \* lines printed so far
    issued,       \* history: utterances handed to root_agent.chat
    replies,      \* history: replies root_agent.chat returned
    turn,         \* the chat call in progress, or NoTurn
    calls,        \* history: capability calls made so far
    error,        \* the exception that ended the process, or "none"
    exitCode      \* process exit status: <<n>> once it has exited

vars == <<environ, environ0, resolved, auth, isMain, pc, project_id, order,
          agents, stdout, issued, replies, turn, calls, error, exitCode>>

-----------------------------------------------------------------------------
(* Bounds *)

\* capability calls made directly on the imported module (SpecTools)
MaxCalls == 2
\* steps the runtime takes inside one chat turn (Spec)
MaxTurnSteps == 2

-----------------------------------------------------------------------------
(* Values *)

Absent == "<absent>"          \* key not in os.environ
None == "<None>"              \* Python None
Unbound == "<unbound>"        \* global not assigned yet
NoTurn == [active |-> "<none>"]
Running == << >>               \* no exit status yet

EnvKeys == {"GOOGLE_CLOUD_PROJECT", "GOOGLE_CLOUD_LOCATION", "GOOGLE_GENAI_USE_VERTEXAI"}

\* a value the operator exported before starting the process
Preset(key) ==
    CASE key = "GOOGLE_CLOUD_PROJECT" -> "preset-project"
      [] key = "GOOGLE_CLOUD_LOCATION" -> "us-central1"
      [] key = "GOOGLE_GENAI_USE_VERTEXAI" -> "False"

\* google.auth.default() returns (credentials, project_id) with project_id an
\* Optional[str]: the ambient credentials may carry no project.
AuthProjects == {"ambient-project", None}

Contains(s, t) ==
    \E i \in 1..(Len(s) - Len(t) + 1) : SubSeq(s, i, i + Len(t) - 1) = t

StartsWith(s, t) == Len(s) >= Len(t) /\ SubSeq(s, 1, Len(t)) = t

Range(s) == {s[i] : i \in 1..Len(s)}

\* an exception nothing catches ends the process with status 1
Raise(e) == pc' = "uncaught" /\ error' = e /\ exitCode' = <<1>>

-----------------------------------------------------------------------------
(* Step 1: the tools.  Each returns what the call prints (out), what it  *)
(* returns (ret) and the exception it raises (exc, "none" when it returns). *)

MemorySummary == "User previously struggled with irregular past tense verbs."
MemoryOk == "Memory access successful."
OpeningLine == "Hello, a table for one, please."

access_long_term_memory_defaults == [data |-> ""]

\* mutant: query_mistakes is answered with the summary as well
access_long_term_memory_any_read(user_id, mode, data) ==
    [out |-> ":brain: Accessing Memory: User='" \o user_id \o "', Mode='" \o mode
                 \o "', Data='" \o data \o "'",
     exc |-> "none",
     ret |-> IF mode \in {"read_summary", "query_mistakes"}
             THEN "User previously struggled with irregular past tense verbs."
             ELSE "Memory access successful."]

access_long_term_memory(user_id, mode, data) ==
    [out |-> ":brain: Accessing Memory: User='" \o user_id \o "', Mode='" \o mode
                 \o "', Data='" \o data \o "'",
     exc |-> "none",
     ret |-> IF mode = "read_summary"
             THEN "User previously struggled with irregular past tense verbs."
             ELSE "Memory access successful."]

create_learning_plan_defaults == << >>

\* mutant: a weekly time budget that is not positive is rejected
create_learning_plan_validating(current_level, goals, time_per_week, past_performance_summary) ==
    IF time_per_week <= 0
    THEN [out |-> "", exc |-> "ValueError", ret |-> ""]
    ELSE [out |-> ":date: Creating learning plan for level '" \o current_level \o "'...",
          exc |-> "none",
          ret |-> "Weekly Plan Created: Focus on '" \o goals
                      \o "', building on past performance."]

create_learning_plan(current_level, goals, time_per_week, past_performance_summary) ==
    [out |-> ":date: Creating learning plan for level '" \o current_level \o "'...",
     exc |-> "none",
     ret |-> "Weekly Plan Created: Focus on '" \o goals
                 \o "', building on past performance."]

generate_assessment_defaults == [num_questions |-> 5, focus_on_past_mistakes |-> TRUE]

\* mutant: the reply interpolates the question count where the topic belongs
generate_assessment_counted(topic, num_questions, focus_on_past_mistakes) ==
    [out |-> ":memo: Generating a " \o ToString(num_questions) \o "-question quiz on '"
                 \o topic \o "'...",
     exc |-> "none",
     ret |-> "Quiz on '" \o ToString(num_questions) \o "' is ready."]

generate_assessment(topic, num_questions, focus_on_past_mistakes) ==
    [out |-> ":memo: Generating a " \o ToString(num_questions) \o "-question quiz on '"
                 \o topic \o "'...",
     exc |-> "none",
     ret |-> "Quiz on '" \o topic \o "' is ready."]

\* mutant: another default difficulty
setup_scenario_defaults_beginner == [difficulty |-> "beginner"]

setup_scenario_defaults == [difficulty |-> "intermediate"]

setup_scenario(scenario_name, difficulty) ==
    [out |-> ":performing_arts: Setting up '" \o scenario_name \o "' scenario at "
                 \o difficulty \o " difficulty...",
     exc |-> "none",
     ret |-> "Scenario ready: You are at a restaurant. Your opening line is "
                 \o "'Hello, a table for one, please.'"]

ToolNames == <<"access_long_term_memory", "create_learning_plan",
               "generate_assessment", "setup_scenario">>

\* Python's argument binding: a parameter the call leaves out takes its default.
Bind(kw, defaults) ==
    [p \in (DOMAIN kw) \cup (DOMAIN defaults) |->
        IF p \in DOMAIN kw THEN kw[p] ELSE defaults[p]]

Defaults(fn) ==
    CASE fn = "access_long_term_memory" -> access_long_term_memory_defaults
      [] fn = "create_learning_plan" -> create_learning_plan_defaults
      [] fn = "generate_assessment" -> generate_assessment_defaults
      [] fn = "setup_scenario" -> setup_scenario_defaults

\* mutant: read_summary hands back what the last write for the user stored
ApplyStored(fn, a) ==
    LET writes == {i \in 1..Len(calls) :
                      /\ calls[i].fn = "access_long_term_memory"
                      /\ calls[i].args.mode = "write"
                      /\ calls[i].args.user_id = a.user_id}
    IN  IF fn = "access_long_term_memory" /\ a.mode = "read_summary" /\ writes # {}
        THEN [out |-> ":brain: Accessing Memory: User='" \o a.user_id \o "', Mode='"
                          \o a.mode \o "', Data='" \o a.data \o "'",
              exc |-> "none",
              ret |-> calls[CHOOSE i \in writes : \A j \in writes : j <= i].args.data]
        ELSE CASE fn = "access_long_term_memory" ->
                    [out |-> ":brain: Accessing Memory: User='" \o a.user_id
                                 \o "', Mode='" \o a.mode \o "', Data='" \o a.data \o "'",
                     exc |-> "none",
                     ret |-> "Memory access successful."]
               [] fn = "create_learning_plan" ->
                    [out |-> ":date: Creating learning plan for level '"
                                 \o a.current_level \o "'...",
                     exc |-> "none",
                     ret |-> "Weekly Plan Created: Focus on '" \o a.goals
                                 \o "', building on past performance."]
               [] fn = "generate_assessment" ->
                    [out |-> ":memo: Generating a " \o ToString(a.num_questions)
                                 \o "-question quiz on '" \o a.topic \o "'...",
                     exc |-> "none",
                     ret |-> "Quiz on '" \o a.topic \o "' is ready."]
               [] fn = "setup_scenario" ->
                    [out |-> ":performing_arts: Setting up '" \o a.scenario_name
                                 \o "' scenario at " \o a.difficulty \o " difficulty...",
                     exc |-> "none",
                     ret |-> "Scenario ready: You are at a restaurant. Your opening line is "
                                 \o "'Hello, a table for one, please.'"]

Apply(fn, a) ==
    CASE fn = "access_long_term_memory" ->
            access_long_term_memory(a.user_id, a.mode, a.data)
      [] fn = "create_learning_plan" ->
            create_learning_plan(a.current_level, a.goals, a.time_per_week,
                                 a.past_performance_summary)
      [] fn = "generate_assessment" ->
            generate_assessment(a.topic, a.num_questions, a.focus_on_past_mistakes)
      [] fn = "setup_scenario" ->
            setup_scenario(a.scenario_name, a.difficulty)

\* One call of tool fn with keyword arguments kw, made while `agent` is active
\* on delegation path `path`: the log line goes to stdout, nothing else changes.
CallRecord(fn, kw, agent, path) ==
    LET a == Bind(kw, Defaults(fn))
        r == Apply(fn, a)
    IN  [fn |-> fn, kw |-> kw, args |-> a, agent |-> agent, path |-> path,
         out |-> r.out, ret |-> r.ret, exc |-> r.exc]

Call(fn, kw, agent, path) ==
    LET c == CallRecord(fn, kw, agent, path)
    IN  /\ stdout' = Append(stdout, c.out)
        /\ calls' = Append(calls, c)

-----------------------------------------------------------------------------
(* Steps 2 and 3: the Agent(...) declarations.  tools and sub_agents hold  *)
(* the module globals the argument lists name, in order.                   *)

planner_agent ==
    [name |-> "Planner_Agent",
     model |-> "gemini-1.5-pro-latest",
     instruction |-> "Your sole purpose is to create effective learning plans using your tools.",
     tools |-> <<"create_learning_plan", "access_long_term_memory">>,
     sub_agents |-> << >>]

\* mutant: the role player is given the planner as a sub-agent of its own
role_player_agent_nested ==
    [name |-> "Role_Player_Agent",
     model |-> "gemini-1.5-pro-latest",
     instruction |-> "Your sole purpose is to engage the user in realistic role-playing scenarios using your tools.",
     tools |-> <<"setup_scenario">>,
     sub_agents |-> <<"planner_agent">>]

role_player_agent ==
    [name |-> "Role_Player_Agent",
     model |-> "gemini-1.5-pro-latest",
     instruction |-> "Your sole purpose is to engage the user in realistic role-playing scenarios using your tools.",
     tools |-> <<"setup_scenario">>,
     sub_agents |-> << >>]

assessor_agent ==
    [name |-> "Assessor_Agent",
     model |-> "gemini-1.5-pro-latest",
     instruction |-> "Your sole purpose is to create and run effective assessments using your tools, leveraging the user's long-term memory to target weak areas.",
     tools |-> <<"generate_assessment", "access_long_term_memory">>,
     sub_agents |-> << >>]

\* The prompt is free text handed to the runtime; only its identity matters here.
PROFESSOR_TUTOR_PROMPT == "PROFESSOR_TUTOR_PROMPT"

\* mutant: the orchestrator is handed the assessment tool as well
root_agent_assessing ==
    [name |-> "Professor_Tutor",
     model |-> "gemini-1.5-pro-latest",
     instruction |-> PROFESSOR_TUTOR_PROMPT,
     tools |-> <<"access_long_term_memory", "generate_assessment">>,
     sub_agents |-> <<"planner_agent", "role_player_agent", "assessor_agent">>]

root_agent ==
    [name |-> "Professor_Tutor",
     model |-> "gemini-1.5-pro-latest",
     instruction |-> PROFESSOR_TUTOR_PROMPT,
     tools |-> <<"access_long_term_memory">>,
     sub_agents |-> <<"planner_agent", "role_player_agent", "assessor_agent">>]

AgentVars == <<"planner_agent", "role_player_agent", "assessor_agent", "root_agent">>

Decl(var) ==
    CASE var = "planner_agent" -> planner_agent
      [] var = "role_player_agent" -> role_player_agent
      [] var = "assessor_agent" -> assessor_agent
      [] var = "root_agent" -> root_agent

\* The module body, statement by statement.
Program ==
    <<"auth", "env_project", "env_location", "env_vertexai">>
    \o ToolNames \o AgentVars \o <<"main_guard">>

After(label) ==
    LET i == CHOOSE j \in 1..Len(Program) : Program[j] = label
    IN  IF i < Len(Program) THEN Program[i + 1] ELSE "imported"

-----------------------------------------------------------------------------
(* Boilerplate setup, lines 22-26 *)

\* _, project_id = google.auth.default()
AuthDefault ==
    /\ pc = "auth"
    /\ project_id' = auth
    /\ pc' = After("auth")
    /\ UNCHANGED <<environ, environ0, resolved, auth, isMain, order, agents, stdout,
                   issued, replies, turn, calls, error, exitCode>>

\* os.environ.setdefault(key, value): a key that is present keeps its value; an
\* absent key is assigned, and os.environ accepts only str values.
SetDefault(label, key, value) ==
    /\ pc = label
    /\ resolved' = [resolved EXCEPT ![key] = @ + 1]
    /\ IF environ[key] # Absent
       THEN /\ pc' = After(label)
            /\ UNCHANGED <<environ, error, exitCode>>
       ELSE IF value = None
            THEN /\ Raise("TypeError")
                 /\ UNCHANGED environ
            ELSE /\ environ' = [environ EXCEPT ![key] = value]
                 /\ pc' = After(label)
                 /\ UNCHANGED <<error, exitCode>>
    /\ UNCHANGED <<environ0, auth, isMain, project_id, order, agents, stdout,
                   issued, replies, turn, calls>>

SetDefaultProject == SetDefault("env_project", "GOOGLE_CLOUD_PROJECT", project_id)

SetDefaultLocation == SetDefault("env_location", "GOOGLE_CLOUD_LOCATION", "global")

SetDefaultVertexAI == SetDefault("env_vertexai", "GOOGLE_GENAI_USE_VERTEXAI", "True")

-----------------------------------------------------------------------------
(* Definitions, lines 33-145 *)

\* @tool def fn(...): binds the global fn
DefineTool(fn) ==
    /\ pc = fn
    /\ order' = Append(order, fn)
    /\ pc' = After(fn)
    /\ UNCHANGED <<environ, environ0, resolved, auth, isMain, project_id, agents,
                   stdout, issued, replies, turn, calls, error, exitCode>>

\* var = Agent(...): the argument lists are evaluated first, and a name that is
\* not bound yet is a NameError.
Construct(var) ==
    /\ pc = var
    /\ IF (Range(Decl(var).tools) \cup Range(Decl(var).sub_agents)) \subseteq Range(order)
       THEN /\ agents' = (var :> Decl(var)) @@ agents
            /\ order' = Append(order, var)
            /\ pc' = After(var)
            /\ UNCHANGED <<error, exitCode>>
       ELSE /\ Raise("NameError")
            /\ UNCHANGED <<agents, order>>
    /\ UNCHANGED <<environ, environ0, resolved, auth, isMain, project_id, stdout,
                   issued, replies, turn, calls>>

\* if __name__ == "__main__":
MainGuard ==
    /\ pc = "main_guard"
    /\ pc' = IF isMain THEN "print_start" ELSE "imported"
    /\ UNCHANGED <<environ, environ0, resolved, auth, isMain, project_id, order,
                   agents, stdout, issued, replies, turn, calls, error, exitCode>>

-----------------------------------------------------------------------------
(* Example usage, lines 148-157.  root_agent.chat belongs to the agent     *)
(* runtime: between the call and its return the runtime may invoke the     *)
(* tools of the active agent and move between an agent and its sub_agents; *)
(* the call ends by returning a reply or by raising.                       *)

Utterances ==
    <<"Can you test me on my past tense verbs?",
      "I'd like to practice ordering a coffee.">>

ResponseHeader == "\nProfessor Tutor's Response:\n"

Replies == {"reply A", "reply B"}

ChatPc(k) == "chat_" \o ToString(k)
InChatPc(k) == "in_chat_" \o ToString(k)
PrintPc(k) == "print_" \o ToString(k)

\* the arguments the runtime passes when it invokes a tool during a turn
TurnKw(fn) ==
    CASE fn = "access_long_term_memory" ->
            {[user_id |-> "u1", mode |-> "read_summary"],
             [user_id |-> "u1", mode |-> "write", data |-> "quiz done"]}
      [] fn = "create_learning_plan" ->
            {[current_level |-> "B1", goals |-> "travel", time_per_week |-> 3,
              past_performance_summary |-> MemorySummary]}
      [] fn = "generate_assessment" ->
            {[topic |-> "past tense verbs"]}
      [] fn = "setup_scenario" ->
            {[scenario_name |-> "ordering coffee"]}

\* print("Starting conversation with Professor Tutor...")
PrintStart ==
    /\ pc = "print_start"
    /\ stdout' = Append(stdout, "Starting conversation with Professor Tutor...")
    /\ pc' = ChatPc(1)
    /\ UNCHANGED <<environ, environ0, resolved, auth, isMain, project_id, order,
                   agents, issued, replies, turn, calls, error, exitCode>>

\* response = root_agent.chat(Utterances[k]): the call is made
Chat(k) ==
    /\ pc = ChatPc(k)
    /\ issued' = Append(issued, Utterances[k])
    /\ turn' = [active |-> "root_agent", path |-> << >>, steps |-> 0]
    /\ pc' = InChatPc(k)
    /\ UNCHANGED <<environ, environ0, resolved, auth, isMain, project_id, order,
                   agents, stdout, replies, calls, error, exitCode>>

InTurn == turn # NoTurn /\ \E k \in 1..Len(Utterances) : pc = InChatPc(k)

\* the runtime invokes a tool of the active agent
RuntimeInvoke ==
    /\ InTurn
    /\ turn.steps < MaxTurnSteps
    /\ \E fn \in Range(agents[turn.active].tools) : \E kw \in TurnKw(fn) :
          Call(fn, kw, turn.active, turn.path)
    /\ turn' = [turn EXCEPT !.steps = @ + 1]
    /\ UNCHANGED <<environ, environ0, resolved, auth, isMain, pc, project_id, order,
                   agents, issued, replies, error, exitCode>>

\* the active agent hands the turn to one of its sub_agents
RuntimeDelegate ==
    /\ InTurn
    /\ turn.steps < MaxTurnSteps
    /\ \E a \in Range(agents[turn.active].sub_agents) :
          turn' = [active |-> a, path |-> Append(turn.path, a),
                   steps |-> turn.steps + 1]
    /\ UNCHANGED <<environ, environ0, resolved, auth, isMain, pc, project_id, order,
                   agents, stdout, issued, replies, calls, error, exitCode>>

\* a sub-agent finishes and its parent resumes the conversation
RuntimeResume ==
    /\ InTurn
    /\ turn.steps < MaxTurnSteps
    /\ turn.path # << >>
    /\ LET up == SubSeq(turn.path, 1, Len(turn.path) - 1)
       IN  turn' = [active |-> IF up = << >> THEN "root_agent" ELSE up[Len(up)],
                    path |-> up, steps |-> turn.steps + 1]
    /\ UNCHANGED <<environ, environ0, resolved, auth, isMain, pc, project_id, order,
                   agents, stdout, issued, replies, calls, error, exitCode>>

\* root_agent.chat returns
ChatReturns(k) ==
    /\ pc = InChatPc(k)
    /\ \E r \in Replies : replies' = Append(replies, r)
    /\ turn' = NoTurn
    /\ pc' = PrintPc(k)
    /\ UNCHANGED <<environ, environ0, resolved, auth, isMain, project_id, order,
                   agents, stdout, issued, calls, error, exitCode>>

\* mutant: the failure is swallowed and the driver carries on
ChatRaisesCaught(k) ==
    /\ pc = InChatPc(k)
    /\ pc' = IF k < Len(Utterances) THEN ChatPc(k + 1) ELSE "exit"
    /\ turn' = NoTurn
    /\ UNCHANGED <<environ, environ0, resolved, auth, isMain, project_id, order,
                   agents, stdout, issued, replies, calls, error, exitCode>>

\* root_agent.chat raises; nothing in the module catches it
ChatRaises(k) ==
    /\ pc = InChatPc(k)
    /\ Raise("RuntimeError")
    /\ turn' = NoTurn
    /\ UNCHANGED <<environ, environ0, resolved, auth, isMain, project_id, order,
                   agents, stdout, issued, replies, calls>>

\* print(f"\nProfessor Tutor's Response:\n{response}")
PrintResponse(k) ==
    /\ pc = PrintPc(k)
    /\ stdout' = Append(stdout, ResponseHeader \o replies[Len(replies)])
    /\ pc' = IF k < Len(Utterances) THEN ChatPc(k + 1) ELSE "exit"
    /\ UNCHANGED <<environ, environ0, resolved, auth, isMain, project_id, order,
                   agents, issued, replies, turn, calls, error, exitCode>>

\* the script runs off its end
Exit ==
    /\ pc = "exit"
    /\ pc' = "done"
    /\ exitCode' = <<0>>
    /\ UNCHANGED <<environ, environ0, resolved, auth, isMain, project_id, order,
                   agents, stdout, issued, replies, turn, calls, error>>

-----------------------------------------------------------------------------
(* The whole program *)

Init ==
    /\ \E present \in SUBSET EnvKeys :
          environ0 = [k \in EnvKeys |-> IF k \in present THEN Preset(k) ELSE Absent]
    /\ environ = environ0
    /\ resolved = [k \in EnvKeys |-> 0]
    /\ auth \in AuthProjects
    /\ isMain \in BOOLEAN
    /\ pc = "auth"
    /\ project_id = Unbound
    /\ order = << >>
    /\ agents = << >>
    /\ stdout = << >>
    /\ issued = << >>
    /\ replies = << >>
    /\ turn = NoTurn
    /\ calls = << >>
    /\ error = "none"
    /\ exitCode = Running

Next ==
    \/ AuthDefault
    \/ SetDefaultProject
    \/ SetDefaultLocation
    \/ SetDefaultVertexAI
    \/ \E fn \in Range(ToolNames) : DefineTool(fn)
    \/ \E var \in Range(AgentVars) : Construct(var)
    \/ MainGuard
    \/ PrintStart
    \/ \E k \in 1..Len(Utterances) : Chat(k)
    \/ RuntimeInvoke
    \/ RuntimeDelegate
    \/ RuntimeResume
    \/ \E k \in 1..Len(Utterances) : ChatReturns(k)
    \/ \E k \in 1..Len(Utterances) : ChatRaises(k)
    \/ \E k \in 1..Len(Utterances) : PrintResponse(k)
    \/ Exit

Spec == Init /\ [][Next]_vars

-----------------------------------------------------------------------------
(* The module imported by a host that calls the tools itself *)

Users == {"u1", "u2"}
Modes == {"read_summary", "write", "query_mistakes", "", "delete"}
Payloads == {"d1"}
Topics == {"", "past tense verbs"}
Counts == {0, -2}
Scenarios == {"", "ordering coffee"}
Difficulties == {"", "expert"}

MemoryKw ==
    {[user_id |-> u, mode |-> m] : u \in Users, m \in Modes}
    \cup {[user_id |-> u, mode |-> m, data |-> d] :
             u \in Users, m \in Modes, d \in Payloads}

PlanKw ==
    {[current_level |-> "B1", goals |-> g, time_per_week |-> t,
      past_performance_summary |-> ""] : g \in {"", "travel"}, t \in {-1, 0, 3}}

AssessmentKw ==
    {[topic |-> t] : t \in Topics}
    \cup {[topic |-> t, num_questions |-> n] : t \in Topics, n \in Counts}
    \cup {[topic |-> t, focus_on_past_mistakes |-> FALSE] : t \in Topics}
    \cup {[topic |-> t, num_questions |-> n, focus_on_past_mistakes |-> FALSE] :
             t \in Topics, n \in Counts}

ScenarioKw ==
    {[scenario_name |-> n] : n \in Scenarios}
    \cup {[scenario_name |-> n, difficulty |-> d] : n \in Scenarios, d \in Difficulties}

\* what a call made by the host leaves alone
DirectFrame ==
    UNCHANGED <<environ, environ0, resolved, auth, isMain, pc, project_id, order,
                agents, issued, replies, turn, error, exitCode>>

Call_access_long_term_memory ==
    /\ pc = "imported"
    /\ Len(calls) < MaxCalls
    /\ \E kw \in MemoryKw : Call("access_long_term_memory", kw, "<host>", << >>)
    /\ DirectFrame

Call_create_learning_plan ==
    /\ pc = "imported"
    /\ Len(calls) < MaxCalls
    /\ \E kw \in PlanKw : Call("create_learning_plan", kw, "<host>", << >>)
    /\ DirectFrame

Call_generate_assessment ==
    /\ pc = "imported"
    /\ Len(calls) < MaxCalls
    /\ \E kw \in AssessmentKw : Call("generate_assessment", kw, "<host>", << >>)
    /\ DirectFrame

Call_setup_scenario ==
    /\ pc = "imported"
    /\ Len(calls) < MaxCalls
    /\ \E kw \in ScenarioKw : Call("setup_scenario", kw, "<host>", << >>)
    /\ DirectFrame

\* the state Spec reaches when nothing is preset, the credentials carry a
\* project and the module is imported rather than run
InitTools ==
    /\ environ0 = [k \in EnvKeys |-> Absent]
    /\ environ = [k \in EnvKeys |->
                    CASE k = "GOOGLE_CLOUD_PROJECT" -> "ambient-project"
                      [] k = "GOOGLE_CLOUD_LOCATION" -> "global"
                      [] k = "GOOGLE_GENAI_USE_VERTEXAI" -> "True"]
    /\ resolved = [k \in EnvKeys |-> 1]
    /\ auth = "ambient-project"
    /\ isMain = FALSE
    /\ pc = "imported"
    /\ project_id = "ambient-project"
    /\ order = ToolNames \o AgentVars
    /\ agents = [v \in Range(AgentVars) |-> Decl(v)]
    /\ stdout = << >>
    /\ issued = << >>
    /\ replies = << >>
    /\ turn = NoTurn
    /\ calls = << >>
    /\ error = "none"
    /\ exitCode = Running

NextTools ==
    \/ Call_access_long_term_memory
    \/ Call_create_learning_plan
    \/ Call_generate_assessment
    \/ Call_setup_scenario

SpecTools == InitTools /\ [][NextTools]_vars

-----------------------------------------------------------------------------
(* Claims about the tools, checked under SpecTools *)

CallsOf(fn) == {i \in 1..Len(calls) : calls[i].fn = fn}

Required(fn) ==
    CASE fn = "access_long_term_memory" -> {"user_id", "mode"}
      [] fn = "create_learning_plan" ->
            {"current_level", "goals", "time_per_week", "past_performance_summary"}
      [] fn = "generate_assessment" -> {"topic"}
      [] fn = "setup_scenario" -> {"scenario_name"}

\* C1: every call of a capability function, with only the required arguments
\* or with all of them and whatever their values (unknown mode, empty strings,
\* zero or negative counts), returns without raising and returns non-empty text.
C1_CallsReturnText ==
    \A i \in 1..Len(calls) : calls[i].exc = "none" /\ Len(calls[i].ret) > 0

\* a call with only the required arguments and an unknown mode, and a call
\* with a negative count and an empty string
C1_Witness ==
    /\ \E i \in CallsOf("access_long_term_memory") :
          /\ DOMAIN calls[i].kw = Required("access_long_term_memory")
          /\ calls[i].args.mode = "delete"
    /\ \E i \in CallsOf("create_learning_plan") :
          calls[i].args.time_per_week < 0 /\ calls[i].args.goals = ""

\* C2: access_long_term_memory returns the prior-struggles summary exactly when
\* mode is "read_summary", and the generic confirmation for every other mode,
\* whatever the user_id and the payload.
C2_MemoryModes ==
    \A i \in CallsOf("access_long_term_memory") :
        calls[i].ret = IF calls[i].args.mode = "read_summary"
                       THEN MemorySummary ELSE MemoryOk

C2_Witness ==
    /\ \E i \in CallsOf("access_long_term_memory") :
          /\ calls[i].args.mode = "read_summary"
          /\ calls[i].args.user_id = "u2"
          /\ calls[i].args.data = "d1"
    /\ \E i \in CallsOf("access_long_term_memory") :
          calls[i].args.mode = "query_mistakes" /\ calls[i].args.user_id = "u1"

\* C6: setup_scenario without a difficulty runs at difficulty "intermediate";
\* whatever the scenario name and difficulty, the text returned contains the
\* opening line and is the same text.
C6_ScenarioText ==
    \A i \in CallsOf("setup_scenario") :
        /\ "difficulty" \notin DOMAIN calls[i].kw =>
              /\ calls[i].args.difficulty = "intermediate"
              /\ Contains(calls[i].out, "scenario at intermediate difficulty")
        /\ Contains(calls[i].ret, OpeningLine)
        /\ \A j \in CallsOf("setup_scenario") : calls[j].ret = calls[i].ret

C6_Witness ==
    \E i, j \in CallsOf("setup_scenario") :
        /\ calls[i].kw = [scenario_name |-> "ordering coffee"]
        /\ calls[j].args.scenario_name = ""
        /\ calls[j].args.difficulty = "expert"

\* C7: generate_assessment returns text that contains the topic it was given,
\* and the text does not depend on num_questions (5 when left out) or on
\* focus_on_past_mistakes (true when left out).
C7_AssessmentText ==
    \A i \in CallsOf("generate_assessment") :
        /\ Contains(calls[i].ret, calls[i].args.topic)
        /\ "num_questions" \notin DOMAIN calls[i].kw => calls[i].args.num_questions = 5
        /\ "focus_on_past_mistakes" \notin DOMAIN calls[i].kw =>
              calls[i].args.focus_on_past_mistakes = TRUE
        /\ \A j \in CallsOf("generate_assessment") :
              calls[j].args.topic = calls[i].args.topic => calls[j].ret = calls[i].ret

C7_Witness ==
    \E i, j \in CallsOf("generate_assessment") :
        /\ calls[i].kw = [topic |-> "past tense verbs"]
        /\ calls[j].args.topic = "past tense verbs"
        /\ calls[j].args.num_questions = 0
        /\ calls[j].args.focus_on_past_mistakes = FALSE

\* C10: a capability call appends its log line to stdout and changes nothing
\* else; what it returns and prints is what any earlier call with the same
\* arguments returned and printed; and read_summary after a write for the same
\* user returns the summary, not the payload written.
C10_Stateless ==
    [][Len(calls') = Len(calls) + 1 =>
        LET c == calls'[Len(calls')]
        IN  /\ UNCHANGED <<environ, environ0, resolved, auth, isMain, project_id,
                           order, agents, issued, replies, error, exitCode>>
            /\ stdout' = Append(stdout, c.out)
            /\ \A i \in CallsOf(c.fn) :
                  calls[i].args = c.args =>
                      calls[i].ret = c.ret /\ calls[i].out = c.out
            /\ (c.fn = "access_long_term_memory" /\ c.args.mode = "read_summary") =>
                  /\ c.ret = MemorySummary
                  /\ \A i \in CallsOf("access_long_term_memory") :
                        (calls[i].args.mode = "write"
                            /\ calls[i].args.user_id = c.args.user_id)
                        => c.ret # calls[i].args.data
     ]_vars

\* a write of d1 for u1 followed by read_summary for u1
C10_Witness ==
    /\ Len(calls) = 2
    /\ calls[1].fn = "access_long_term_memory"
    /\ calls[1].args = [user_id |-> "u1", mode |-> "write", data |-> "d1"]
    /\ calls[2].fn = "access_long_term_memory"
    /\ calls[2].args.user_id = "u1"
    /\ calls[2].args.mode = "read_summary"

-----------------------------------------------------------------------------
(* Claims about the configuration and the driver, checked under Spec *)

Children(a) == IF a \in DOMAIN agents THEN Range(agents[a].sub_agents) ELSE {}

RECURSIVE ReachIn(_, _)
ReachIn(S, n) ==
    IF n = 0 THEN S ELSE ReachIn(S \cup UNION {Children(a) : a \in S}, n - 1)

Descendants(a) == ReachIn(Children(a), Cardinality(DOMAIN agents))

Parents(a) == {b \in DOMAIN agents : a \in Children(b)}

BoundBefore(v) ==
    LET i == CHOOSE j \in 1..Len(order) : order[j] = v
    IN  {order[j] : j \in 1..(i - 1)}

NoRepeats(q) == \A i, j \in 1..Len(q) : q[i] = q[j] => i = j

Configured == "root_agent" \in DOMAIN agents

\* C3: every tool and sub-agent an agent names was bound before the agent was;
\* once the orchestrator exists the sub-agent relation is a tree rooted at it
\* (no agent among its own descendants, the orchestrator nobody's child, every
\* other agent the child of exactly one agent and a descendant of the
\* orchestrator); and no delegation path of a turn visits an agent twice.
C3_AgentTree ==
    /\ \A v \in DOMAIN agents :
          (Range(agents[v].tools) \cup Range(agents[v].sub_agents))
              \subseteq BoundBefore(v)
    /\ Configured =>
          /\ agents["root_agent"].name = "Professor_Tutor"
          /\ \A v \in DOMAIN agents : v \notin Descendants(v)
          /\ Parents("root_agent") = {}
          /\ \A v \in DOMAIN agents \ {"root_agent"} :
                /\ Cardinality(Parents(v)) = 1
                /\ v \in Descendants("root_agent")
          /\ \A v \in DOMAIN agents : NoRepeats(agents[v].sub_agents)
    /\ turn # NoTurn => NoRepeats(<<"root_agent">> \o turn.path)

\* the four agents exist and a turn has been delegated to a specialist
C3_Witness ==
    /\ DOMAIN agents = Range(AgentVars)
    /\ turn # NoTurn
    /\ turn.path = <<"role_player_agent">>

Specialists == {"planner_agent", "role_player_agent", "assessor_agent"}

SpecialistTools == {"create_learning_plan", "generate_assessment", "setup_scenario"}

\* C8: the orchestrator's own tools are the memory tool alone; each specialist
\* holds some but not all of the four tools; every tool is held by the
\* orchestrator or by one of its sub-agents; and every call of plan creation,
\* assessment generation or scenario setup is made by a specialist that holds
\* the tool, inside a turn the orchestrator delegated to it in one step.
C8_Hierarchy ==
    /\ Configured =>
          /\ Range(agents["root_agent"].tools) = {"access_long_term_memory"}
          /\ Children("root_agent") = Specialists
          /\ \A v \in Specialists :
                /\ Range(agents[v].tools) \subseteq Range(ToolNames)
                /\ Range(agents[v].tools) # Range(ToolNames)
                /\ Range(agents[v].tools) # {}
          /\ \A t \in Range(ToolNames) :
                \/ t \in Range(agents["root_agent"].tools)
                \/ \E v \in Children("root_agent") : t \in Range(agents[v].tools)
    /\ \A i \in 1..Len(calls) :
          calls[i].fn \in SpecialistTools =>
              /\ calls[i].agent \in Specialists
              /\ calls[i].fn \in Range(agents[calls[i].agent].tools)
              /\ calls[i].path = <<calls[i].agent>>

\* the assessor and the role player have each made their call
C8_Witness ==
    /\ \E i \in CallsOf("generate_assessment") : calls[i].agent = "assessor_agent"
    /\ \E i \in CallsOf("setup_scenario") : calls[i].agent = "role_player_agent"

IsPrefix(p, q) == Len(p) <= Len(q) /\ SubSeq(q, 1, Len(p)) = p

ResponseLines == SelectSeq(stdout, LAMBDA l : StartsWith(l, ResponseHeader))

\* C5: the driver hands the two fixed utterances to the orchestrator in order,
\* the second only after the first reply is printed; it ends with exit code 0
\* exactly when both turns returned and both replies are printed; and when a
\* turn raises, its reply is not printed, nothing further is issued and the
\* process ends with the uncaught error.
C5_Driver ==
    /\ IsPrefix(issued, <<"Can you test me on my past tense verbs?",
                          "I'd like to practice ordering a coffee.">>)
    /\ Len(replies) <= Len(issued)
    /\ Len(issued) <= Len(replies) + 1
    /\ IsPrefix(ResponseLines, [i \in 1..Len(replies) |-> ResponseHeader \o replies[i]])
    /\ Len(issued) - 1 <= Len(ResponseLines)
    /\ pc = "done" <=> exitCode = <<0>>
    /\ pc = "done" =>
          /\ Len(issued) = 2
          /\ Len(ResponseLines) = 2
          /\ error = "none"
    /\ Len(replies) = 2 => pc \in {PrintPc(2), "exit", "done"}
    /\ (pc = "uncaught" /\ error = "RuntimeError") =>
          /\ Len(replies) = Len(issued) - 1
          /\ Len(ResponseLines) = Len(replies)
          /\ exitCode = <<1>>

\* the first reply is printed and the second turn has raised
C5_Witness ==
    /\ pc = "uncaught"
    /\ error = "RuntimeError"
    /\ Len(issued) = 2
    /\ Len(ResponseLines) = 1

StartupLabels == {"auth", "env_project", "env_location", "env_vertexai"}

DefaultOf(k) ==
    CASE k = "GOOGLE_CLOUD_PROJECT" -> auth
      [] k = "GOOGLE_CLOUD_LOCATION" -> "global"
      [] k = "GOOGLE_GENAI_USE_VERTEXAI" -> "True"

\* C4: each of the three settings goes through setdefault once; afterwards a
\* setting that was present has the value it had and a setting that was absent
\* has its default; and startup never ends in an error, whichever settings are
\* present.
C4_EnvDefaults ==
    /\ \A k \in EnvKeys :
          /\ resolved[k] <= 1
          /\ resolved[k] = 1 =>
                environ[k] = IF environ0[k] = Absent THEN DefaultOf(k) ELSE environ0[k]
    /\ pc \notin StartupLabels =>
          /\ \A k \in EnvKeys : resolved[k] = 1 /\ environ[k] # Absent
          /\ order # << >> \/ pc # "uncaught"

====
